---- MODULE Spec2Model ----
(***************************************************************************)
(* A model of tinyspline.c: De Boor evaluation (ts_bspline_evaluate), knot *)
(* insertion (ts_bspline_insert_knot), splitting (ts_bspline_split) and    *)
(* decomposition into Bezier segments (ts_bspline_to_bezier).              *)
(*                                                                         *)
(* Floats are modelled as exact rationals <<numerator, denominator>>, so   *)
(* rounding is not modelled.  Arrays are sequences; the C index i is the   *)
(* TLA+ index i+1.  A NULL buffer is the empty sequence.  The allocator is *)
(* taken to succeed (its failure is outside the operations modelled).      *)
(***************************************************************************)
EXTENDS Integers, Sequences, FiniteSets, TLC

(***************************************************************************)
(* Bounds of the model.                                                    *)
(***************************************************************************)
MaxDeg == 2
MaxCtrlp == 4
MaxKnot == 2
MaxTimes == 2
MaxIter == 3

(***************************************************************************)
(* Rational arithmetic (the C float operators).                            *)
(***************************************************************************)
RECURSIVE GCD(_, _)
GCD(a, b) == IF b = 0 THEN a ELSE GCD(b, a % b)

IAbs(x) == IF x < 0 THEN -x ELSE x

\* A division by zero yields NaN, written <<0, 0>>; NaN is absorbing.
NaN == <<0, 0>>

RNorm(n, d) ==
    IF d = 0 THEN NaN
    ELSE LET g == GCD(IAbs(n), IAbs(d))
             sg == IF d < 0 THEN -1 ELSE 1
         IN <<sg * (n \div g), sg * (d \div g)>>

R(n) == <<n, 1>>
RAdd(x, y) == IF x[2] <= 0 \/ y[2] <= 0 THEN NaN
              ELSE RNorm(x[1] * y[2] + y[1] * x[2], x[2] * y[2])
RSub(x, y) == IF x[2] <= 0 \/ y[2] <= 0 THEN NaN
              ELSE RNorm(x[1] * y[2] - y[1] * x[2], x[2] * y[2])
RMul(x, y) == IF x[2] <= 0 \/ y[2] <= 0 THEN NaN
              ELSE RNorm(x[1] * y[1], x[2] * y[2])
RDiv(x, y) == IF x[2] <= 0 \/ y[2] <= 0 \/ y[1] = 0 THEN NaN
              ELSE RNorm(x[1] * y[2], x[2] * y[1])
RAbs(x) == <<IAbs(x[1]), x[2]>>
\* comparisons with NaN are false, as in C
RLt(x, y) == x[2] > 0 /\ y[2] > 0 /\ x[1] * y[2] < y[1] * x[2]
RLe(x, y) == x[2] > 0 /\ y[2] > 0 /\ x[1] * y[2] <= y[1] * x[2]

\* The content of memory that malloc returned and nothing wrote yet; like NaN
\* it has no positive denominator, so arithmetic on it yields NaN.
UNINIT == <<0, -1>>

NULL == <<>>

(***************************************************************************)
(* tsError (tinyspline.h): success is 0, failures are negative.            *)
(***************************************************************************)
TS_SUCCESS == 0
TS_MALLOC == 0 - 1
TS_DIM_ZERO == 0 - 2
TS_DEG_GE_NCTRLP == 0 - 3
TS_U_UNDEFINED == 0 - 4
TS_MULTIPLICITY == 0 - 5

\* tsBSplineType (tinyspline.h)
TS_OPENED == "TS_OPENED"
TS_CLAMPED == "TS_CLAMPED"

\* the tolerances of ts_fequals (tinyspline.h)
FLT_MAX_ABS_ERROR == <<1, 10000000>>
FLT_MAX_REL_ERROR == <<1, 100000>>

ts_fequals(x, y) ==
    IF RLt(RAbs(RSub(x, y)), FLT_MAX_ABS_ERROR) THEN TRUE
    ELSE LET r == IF RLt(RAbs(y), RAbs(x))
                  THEN RAbs(RDiv(RSub(x, y), x))
                  ELSE RAbs(RDiv(RSub(x, y), y))
         IN RLe(r, FLT_MAX_REL_ERROR)

(***************************************************************************)
(* Value types and their lifecycle.                                        *)
(***************************************************************************)
ts_deboornet_default ==
    [k |-> 0, s |-> 0, h |-> 0, deg |-> 0, dim |-> 0, n_affected |-> 0,
     n_points |-> 0, last_idx |-> 0, points |-> NULL]

\* free(points) if it is not NULL, then the defaults
ts_deboornet_free(deBoorNet) == ts_deboornet_default

ts_bspline_default ==
    [deg |-> 0, order |-> 0, dim |-> 0, n_ctrlp |-> 0, n_knots |-> 0,
     ctrlp |-> NULL, knots |-> NULL]

ts_bspline_free(bspline) == ts_bspline_default

ts_bsplinesequence_default == [n |-> 0, bsplines |-> NULL]

ts_bsplinesequence_new(n) ==
    IF n > 0
    THEN [ret |-> TS_SUCCESS,
          sequence |-> [n |-> n, bsplines |-> [i \in 1..n |-> ts_bspline_default]]]
    ELSE [ret |-> TS_SUCCESS, sequence |-> ts_bsplinesequence_default]

\* the knot ts_bspline_new stores at index current
NewKnot(type, deg, order, n_knots, current) ==
    IF type = TS_OPENED
    THEN RNorm(current, n_knots - 1)
    ELSE IF current < order THEN R(0)
    ELSE IF current < n_knots - order
         THEN RNorm(current - order + 1, n_knots - (2 * deg) - 1)
    ELSE R(1)

\* n_ctrlp is a size_t: a negative value stands for the huge number it wraps
\* to, which passes the degree check and which malloc cannot serve.
ts_bspline_new(deg, dim, n_ctrlp, type) ==
    IF dim < 1 THEN [ret |-> TS_DIM_ZERO, bspline |-> ts_bspline_default]
    ELSE IF n_ctrlp >= 0 /\ deg >= n_ctrlp
         THEN [ret |-> TS_DEG_GE_NCTRLP, bspline |-> ts_bspline_default]
    ELSE IF n_ctrlp < 0
         THEN [ret |-> TS_MALLOC, bspline |-> ts_bspline_default]
    ELSE LET order == deg + 1
             n_knots == n_ctrlp + order
         IN [ret |-> TS_SUCCESS,
             bspline |->
               [deg |-> deg, order |-> order, dim |-> dim,
                n_ctrlp |-> n_ctrlp, n_knots |-> n_knots,
                ctrlp |-> [j \in 1..(n_ctrlp * dim) |-> UNINIT],
                knots |-> [j \in 1..n_knots |->
                             NewKnot(type, deg, order, n_knots, j - 1)]]]

(***************************************************************************)
(* Buffers under construction: buf is the content, ok says that no copy    *)
(* left a buffer so far, huge says that some copy had a negative count,    *)
(* which as a size_t is a copy of nearly the whole address space.          *)
(***************************************************************************)
Fresh(buf) == [buf |-> buf, ok |-> TRUE, huge |-> FALSE]

InBounds(dstLen, to, srcLen, from, cnt) ==
    /\ cnt >= 0
    /\ (cnt > 0 => from >= 0 /\ to >= 0)
    /\ (cnt > 0 => from + cnt <= srcLen /\ to + cnt <= dstLen)

\* memcpy(&dst[to], &src[from], cnt floats); a copy that leaves either buffer
\* is undefined, and the model then leaves the content as it was
memcpy(dst, to, src, from, cnt) ==
    IF ~InBounds(Len(dst.buf), to, Len(src), from, cnt)
    THEN [buf |-> dst.buf, ok |-> FALSE, huge |-> dst.huge \/ cnt < 0]
    ELSE [buf |-> [j \in 1..Len(dst.buf) |->
                     IF j > to /\ j <= to + cnt THEN src[from + (j - to)]
                     ELSE dst.buf[j]],
          ok |-> dst.ok, huge |-> dst.huge]

\* for (idx = 0; idx < cnt; idx++) dst[to++] = val
Fill(dst, to, val, cnt) ==
    IF cnt > 0 /\ (to < 0 \/ to + cnt > Len(dst.buf))
    THEN [buf |-> dst.buf, ok |-> FALSE, huge |-> dst.huge]
    ELSE [buf |-> [j \in 1..Len(dst.buf) |->
                     IF j > to /\ j <= to + cnt THEN val ELSE dst.buf[j]],
          ok |-> dst.ok, huge |-> dst.huge]

ts_bspline_copy(original) ==
    LET nw == ts_bspline_new(original.deg, original.dim, original.n_ctrlp, TS_CLAMPED)
    IN IF nw.ret >= 0
       THEN LET c == memcpy(Fresh(nw.bspline.ctrlp), 0,
                            original.ctrlp, 0, original.n_ctrlp * original.dim)
                kn == memcpy(Fresh(nw.bspline.knots), 0,
                             original.knots, 0, original.n_knots)
            IN [ret |-> nw.ret,
                copy |-> [nw.bspline EXCEPT !.ctrlp = c.buf, !.knots = kn.buf]]
       ELSE [ret |-> nw.ret, copy |-> nw.bspline]

(***************************************************************************)
(* ts_bspline_evaluate                                                     *)
(***************************************************************************)
\* the scan for k and s: returns <<k, s>> as the loop leaves them
RECURSIVE ScanKnots(_, _, _, _)
ScanKnots(bspline, u, k, s) ==
    IF k < bspline.n_knots
    THEN LET uk == bspline.knots[k + 1]
         IN IF ts_fequals(u, uk) THEN ScanKnots(bspline, u, k + 1, s + 1)
            ELSE IF RLt(u, uk) THEN <<k, s>>
            ELSE ScanKnots(bspline, u, k + 1, s)
    ELSE <<k, s>>

\* UGe with > for >=: the window may end one behind the last control point
UGe_Mutant(x, n) == x < 0 \/ x > n

\* x >= n where x is an int converted to size_t: a negative x is huge
UGe(x, n) == x < 0 \/ x >= n

\* the loop over i of one round r; st = [points, idx_l, idx_r]
RECURSIVE DeBoorRow(_, _, _, _, _, _)
DeBoorRow(bspline, u, r, i, lst, st) ==
    IF i <= lst
    THEN LET ui == bspline.knots[i + 1]
             a == RDiv(RSub(u, ui),
                       RSub(bspline.knots[(i + bspline.deg - r + 1) + 1], ui))
             a_hat == RSub(R(1), a)
             row == [n \in 1..bspline.dim |->
                       RAdd(RMul(a_hat, st.points[st.idx_l + n]),
                            RMul(a, st.points[st.idx_r + n]))]
         IN DeBoorRow(bspline, u, r, i + 1, lst,
                      [points |-> st.points \o row,
                       idx_l |-> st.idx_l + bspline.dim,
                       idx_r |-> st.idx_r + bspline.dim])
    ELSE st

\* the loop over r
RECURSIVE DeBoorRounds(_, _, _, _, _, _, _)
DeBoorRounds(bspline, u, fst, lst, h, r, st) ==
    IF r <= h
    THEN LET done == DeBoorRow(bspline, u, r, fst + r, lst, st)
         IN DeBoorRounds(bspline, u, fst, lst, h, r + 1,
                         [done EXCEPT !.idx_l = @ + bspline.dim,
                                      !.idx_r = @ + bspline.dim])
    ELSE st

\* src[from .. from + cnt) as memcpy reads it into a fresh buffer; what lies
\* outside src is indeterminate
Slice(src, from, cnt) ==
    [j \in 1..cnt |-> IF from + j >= 1 /\ from + j <= Len(src)
                      THEN src[from + j] ELSE UNINIT]

\* EvalBoundary without the case fst < 0: the single point is always read at
\* index k-s
EvalBoundary_Mutant(bspline, net0) ==
    LET dim == bspline.dim
        fst == net0.k - net0.s
        snd == fst + 1
    IN IF fst < 0 \/ UGe(snd, bspline.n_ctrlp)
       THEN [ret |-> 1,
             net |-> [net0 EXCEPT
                        !.n_affected = 1, !.n_points = 1, !.last_idx = 0,
                        !.points = Slice(bspline.ctrlp, fst * dim, dim)]]
       ELSE [ret |-> 2,
             net |-> [net0 EXCEPT
                        !.n_affected = 2, !.n_points = 2, !.last_idx = dim,
                        !.points = Slice(bspline.ctrlp, fst * dim, 2 * dim)]]

\* the branch s == order: the control points k-s and k-s+1, or the one of
\* them that exists
EvalBoundary(bspline, net0) ==
    LET dim == bspline.dim
        fst == net0.k - net0.s
        snd == fst + 1
    IN IF fst < 0 \/ UGe(snd, bspline.n_ctrlp)
       THEN [ret |-> 1,
             net |-> [net0 EXCEPT
                        !.n_affected = 1, !.n_points = 1, !.last_idx = 0,
                        !.points = IF fst < 0
                                   THEN Slice(bspline.ctrlp, 0, dim)
                                   ELSE Slice(bspline.ctrlp, fst * dim, dim)]]
       ELSE [ret |-> 2,
             net |-> [net0 EXCEPT
                        !.n_affected = 2, !.n_points = 2, !.last_idx = dim,
                        !.points = Slice(bspline.ctrlp, fst * dim, 2 * dim)]]

\* the branch s < order: the De Boor algorithm
EvalGeneral(bspline, u, net0) ==
    LET deg == bspline.deg
        dim == bspline.dim
        fst == net0.k - deg
        lst == net0.k - net0.s
    IN IF fst < 0 \/ UGe(lst, bspline.n_ctrlp)
       THEN [ret |-> TS_U_UNDEFINED, net |-> ts_deboornet_free(net0)]
       ELSE LET n_affected == lst - fst + 1
                n_points == (n_affected * (n_affected + 1)) \div 2
                tri == DeBoorRounds(bspline, u, fst, lst, net0.h, 1,
                         [points |-> Slice(bspline.ctrlp, fst * dim,
                                           n_affected * dim),
                          idx_l |-> 0, idx_r |-> dim])
            IN [ret |-> 0,
                net |-> [net0 EXCEPT
                           !.n_affected = n_affected,
                           !.n_points = n_points,
                           !.last_idx = (n_points - 1) * dim,
                           !.points = tri.points]]

ts_bspline_evaluate(bspline, u) ==
    LET scan == ScanKnots(bspline, u, 0, 0)
        k == scan[1] - 1
        s == scan[2]
        net0 == [ts_deboornet_default EXCEPT
                   !.deg = bspline.deg, !.dim = bspline.dim,
                   !.k = k, !.s = s, !.h = bspline.deg - s]
    IN IF s > bspline.order
       THEN [ret |-> TS_MULTIPLICITY, net |-> ts_deboornet_free(net0)]
       ELSE IF s = bspline.order THEN EvalBoundary(bspline, net0)
       ELSE EvalGeneral(bspline, u, net0)

(***************************************************************************)
(* ts_bspline_insert_knot                                                  *)
(***************************************************************************)
\* one of the two loops that copy n points from an edge of the De Boor net;
\* st = [dst, from, stride, to], stride_inc is -dim
RECURSIVE InsertEdgeLoop(_, _, _, _, _)
InsertEdgeLoop(st, points, dim, idx, n) ==
    IF idx < n
    THEN InsertEdgeLoop([dst |-> memcpy(st.dst, st.to, points, st.from, dim),
                         from |-> st.from + st.stride,
                         stride |-> st.stride - dim,
                         to |-> st.to + dim],
                        points, dim, idx + 1, n)
    ELSE st

\* InsertCtrlp without "from -= dim" before the right edge is copied
InsertCtrlp_Mutant(bspline, net, n, ctrlp) ==
    LET deg == bspline.deg
        dim == bspline.dim
        N == net.n_affected
        k == net.k
        lhs == memcpy(Fresh(ctrlp), 0, bspline.ctrlp, 0, (k - deg) * dim)
        left == InsertEdgeLoop([dst |-> lhs, from |-> 0, stride |-> N * dim,
                                to |-> (k - deg) * dim],
                               net.points, dim, 0, n)
        mid == memcpy(left.dst, left.to, net.points, left.from, (N - n) * dim)
        right == InsertEdgeLoop([dst |-> mid, from |-> left.from,
                                 stride |-> (0 - (N - n + 1)) * dim,
                                 to |-> left.to + (N - n) * dim],
                                net.points, dim, 0, n)
    IN memcpy(right.dst, right.to, bspline.ctrlp, ((k - deg) + N) * dim,
              (bspline.n_ctrlp - ((k - deg) + N)) * dim)

\* the control points of the result, as the five copies leave them
InsertCtrlp(bspline, net, n, ctrlp) ==
    LET deg == bspline.deg
        dim == bspline.dim
        N == net.n_affected
        k == net.k
        lhs == memcpy(Fresh(ctrlp), 0, bspline.ctrlp, 0, (k - deg) * dim)
        left == InsertEdgeLoop([dst |-> lhs, from |-> 0, stride |-> N * dim,
                                to |-> (k - deg) * dim],
                               net.points, dim, 0, n)
        mid == memcpy(left.dst, left.to, net.points, left.from, (N - n) * dim)
        right == InsertEdgeLoop([dst |-> mid, from |-> left.from - dim,
                                 stride |-> (0 - (N - n + 1)) * dim,
                                 to |-> left.to + (N - n) * dim],
                                net.points, dim, 0, n)
    IN memcpy(right.dst, right.to, bspline.ctrlp, ((k - deg) + N) * dim,
              (bspline.n_ctrlp - ((k - deg) + N)) * dim)

\* InsertKnots that writes u from index k on instead of k+1
InsertKnots_Mutant(bspline, net, u, n, knots) ==
    LET k == net.k
        head == memcpy(Fresh(knots), 0, bspline.knots, 0, k + 1)
        ins == Fill(head, k, u, n)
    IN memcpy(ins, (k + 1) + n, bspline.knots, k + 1, bspline.n_knots - (k + 1))

\* the knots of the result
InsertKnots(bspline, net, u, n, knots) ==
    LET k == net.k
        head == memcpy(Fresh(knots), 0, bspline.knots, 0, k + 1)
        ins == Fill(head, k + 1, u, n)
    IN memcpy(ins, (k + 1) + n, bspline.knots, k + 1, bspline.n_knots - (k + 1))

\* InsertExceeds that forgets the multiplicity u already has
InsertExceeds_Mutant(bspline, net, n) == n > bspline.order

\* the check net.s+n > bspline->order
InsertExceeds(bspline, net, n) == net.s + n > bspline.order

\* net is the local De Boor net as the call leaves it; ok is FALSE when a copy
\* was undefined
ts_bspline_insert_knot(bspline, u, n) ==
    LET ev == ts_bspline_evaluate(bspline, u)
    IN IF ev.ret < 0
       THEN [ret |-> ev.ret, result |-> ts_bspline_default,
             net |-> ts_deboornet_free(ev.net), ok |-> TRUE, huge |-> FALSE]
       ELSE IF InsertExceeds(bspline, ev.net, n)
       THEN [ret |-> TS_MULTIPLICITY, result |-> ts_bspline_default,
             net |-> ts_deboornet_free(ev.net), ok |-> TRUE, huge |-> FALSE]
       ELSE LET nw == ts_bspline_new(bspline.deg, bspline.dim,
                                     bspline.n_ctrlp + n, TS_OPENED)
            IN IF nw.ret < 0
               THEN [ret |-> nw.ret, result |-> nw.bspline,
                     net |-> ts_deboornet_free(ev.net), ok |-> TRUE, huge |-> FALSE]
               ELSE LET c == InsertCtrlp(bspline, ev.net, n, nw.bspline.ctrlp)
                        kn == InsertKnots(bspline, ev.net, u, n, nw.bspline.knots)
                    IN [ret |-> TS_SUCCESS,
                        result |-> [nw.bspline EXCEPT !.ctrlp = c.buf,
                                                      !.knots = kn.buf],
                        net |-> ev.net,
                        ok |-> c.ok /\ kn.ok, huge |-> c.huge \/ kn.huge]

(***************************************************************************)
(* ts_bspline_split                                                        *)
(***************************************************************************)
\* the loop that copies N points from an edge of the De Boor net;
\* st = [dst, from_n, stride, to_n], stride_inc is -dim
RECURSIVE SplitEdgeLoop(_, _, _, _, _)
SplitEdgeLoop(st, points, dim, n, N) ==
    IF n < N
    THEN SplitEdgeLoop([dst |-> memcpy(st.dst, st.to_n, points, st.from_n, dim),
                        from_n |-> st.from_n + st.stride,
                        stride |-> st.stride - dim,
                        to_n |-> st.to_n + dim],
                       points, dim, n + 1, N)
    ELSE st

\* SplitPart that starts the knots u of the left part at k-s instead of k-s+1
SplitPart_Mutant(bspline, net, u, idx, n_ctrlp, part) ==
    LET dim == bspline.dim
        N == net.n_affected
        k == net.k
        s == net.s
        from_b == IF idx = 0 THEN 0 ELSE (k - s + 1) * dim
        to_b == IF idx = 0 THEN 0 ELSE N * dim
        from_n == IF idx = 0 THEN 0 ELSE (net.n_points - 1) * dim
        to_n == IF idx = 0 THEN (n_ctrlp[1] - N) * dim ELSE 0
        stride == IF idx = 0 THEN N * dim ELSE 0 - dim
        from_k == IF idx = 0 THEN 0 ELSE k + 1
        to_k == IF idx = 0 THEN 0 ELSE bspline.order
        amount_k == IF idx = 0 THEN k - s + 1 ELSE bspline.n_knots - (k + 1)
        to_u == IF idx = 0 THEN k - s ELSE 0
        amount_u == bspline.order
        orig == memcpy(Fresh(part.ctrlp), to_b, bspline.ctrlp, from_b,
                       (n_ctrlp[idx + 1] - N) * dim)
        edge == SplitEdgeLoop([dst |-> orig, from_n |-> from_n,
                               stride |-> stride, to_n |-> to_n],
                              net.points, dim, 0, N)
        kn == memcpy(Fresh(part.knots), to_k, bspline.knots, from_k, amount_k)
        ku == Fill(kn, to_u, u, amount_u)
    IN [bspline |-> [part EXCEPT !.ctrlp = edge.dst.buf, !.knots = ku.buf],
        ok |-> edge.dst.ok /\ ku.ok, huge |-> edge.dst.huge \/ ku.huge]

\* the body of the loop over idx (0: left part, 1: right part) in the general
\* case: fills part, the curve ts_bspline_new made for split->bsplines[idx]
SplitPart(bspline, net, u, idx, n_ctrlp, part) ==
    LET dim == bspline.dim
        N == net.n_affected
        k == net.k
        s == net.s
        from_b == IF idx = 0 THEN 0 ELSE (k - s + 1) * dim
        to_b == IF idx = 0 THEN 0 ELSE N * dim
        from_n == IF idx = 0 THEN 0 ELSE (net.n_points - 1) * dim
        to_n == IF idx = 0 THEN (n_ctrlp[1] - N) * dim ELSE 0
        stride == IF idx = 0 THEN N * dim ELSE 0 - dim
        from_k == IF idx = 0 THEN 0 ELSE k + 1
        to_k == IF idx = 0 THEN 0 ELSE bspline.order
        amount_k == IF idx = 0 THEN k - s + 1 ELSE bspline.n_knots - (k + 1)
        to_u == IF idx = 0 THEN k - s + 1 ELSE 0
        amount_u == bspline.order
        orig == memcpy(Fresh(part.ctrlp), to_b, bspline.ctrlp, from_b,
                       (n_ctrlp[idx + 1] - N) * dim)
        edge == SplitEdgeLoop([dst |-> orig, from_n |-> from_n,
                               stride |-> stride, to_n |-> to_n],
                              net.points, dim, 0, N)
        kn == memcpy(Fresh(part.knots), to_k, bspline.knots, from_k, amount_k)
        ku == Fill(kn, to_u, u, amount_u)
    IN [bspline |-> [part EXCEPT !.ctrlp = edge.dst.buf, !.knots = ku.buf],
        ok |-> edge.dst.ok /\ ku.ok, huge |-> edge.dst.huge \/ ku.huge]

\* ret_eval == 0
SplitGeneral(bspline, net, u) ==
    LET deg == bspline.deg
        N == net.n_affected
        k == net.k
        s == net.s
        n_ctrlp == <<k - deg + N, bspline.n_ctrlp - (k - s) + N - 1>>
        new0 == ts_bspline_new(deg, bspline.dim, n_ctrlp[1], TS_CLAMPED)
        new1 == ts_bspline_new(deg, bspline.dim, n_ctrlp[2], TS_CLAMPED)
    IN IF new0.ret < 0
       THEN [ret |-> new0.ret, split |-> ts_bsplinesequence_default,
             ok |-> TRUE, huge |-> FALSE]
       ELSE IF new1.ret < 0
       THEN [ret |-> new1.ret, split |-> ts_bsplinesequence_default,
             ok |-> TRUE, huge |-> FALSE]
       ELSE LET p0 == SplitPart(bspline, net, u, 0, n_ctrlp, new0.bspline)
                p1 == SplitPart(bspline, net, u, 1, n_ctrlp, new1.bspline)
            IN [ret |-> 0,
                split |-> [n |-> 2, bsplines |-> <<p0.bspline, p1.bspline>>],
                ok |-> p0.ok /\ p1.ok, huge |-> p0.huge \/ p1.huge]

\* SplitCopy with the two boundary signals swapped
SplitCopy_Mutant(bspline, u) ==
    LET cp == ts_bspline_copy(bspline)
    IN IF cp.ret < 0
       THEN [ret |-> cp.ret, split |-> ts_bsplinesequence_default,
             ok |-> TRUE, huge |-> FALSE]
       ELSE [ret |-> IF ts_fequals(bspline.knots[bspline.deg + 1], u) THEN 2 ELSE 1,
             split |-> [n |-> 1, bsplines |-> <<cp.copy>>],
             ok |-> TRUE, huge |-> FALSE]

\* ret_eval == 1
SplitCopy(bspline, u) ==
    LET cp == ts_bspline_copy(bspline)
    IN IF cp.ret < 0
       THEN [ret |-> cp.ret, split |-> ts_bsplinesequence_default,
             ok |-> TRUE, huge |-> FALSE]
       ELSE [ret |-> IF ts_fequals(bspline.knots[bspline.deg + 1], u) THEN 1 ELSE 2,
             split |-> [n |-> 1, bsplines |-> <<cp.copy>>],
             ok |-> TRUE, huge |-> FALSE]

\* ret_eval == 2
SplitPartition(bspline, net) ==
    LET deg == bspline.deg
        dim == bspline.dim
        k == net.k
        s == net.s
        n_ctrlp == <<k - s + 1, bspline.n_ctrlp - (k - s + 1)>>
        new0 == ts_bspline_new(deg, dim, n_ctrlp[1], TS_CLAMPED)
        new1 == ts_bspline_new(deg, dim, n_ctrlp[2], TS_CLAMPED)
    IN IF new0.ret < 0
       THEN [ret |-> new0.ret, split |-> ts_bsplinesequence_default,
             ok |-> TRUE, huge |-> FALSE]
       ELSE IF new1.ret < 0
       THEN [ret |-> new1.ret, split |-> ts_bsplinesequence_default,
             ok |-> TRUE, huge |-> FALSE]
       ELSE LET n_knots == <<new0.bspline.n_knots, new1.bspline.n_knots>>
                c0 == memcpy(Fresh(new0.bspline.ctrlp), 0, bspline.ctrlp, 0,
                             n_ctrlp[1] * dim)
                k0 == memcpy(Fresh(new0.bspline.knots), 0, bspline.knots, 0,
                             n_knots[1])
                c1 == memcpy(Fresh(new1.bspline.ctrlp), 0, bspline.ctrlp,
                             n_ctrlp[1] * dim, n_ctrlp[2] * dim)
                k1 == memcpy(Fresh(new1.bspline.knots), 0, bspline.knots,
                             bspline.n_knots - n_knots[2], n_knots[2])
            IN [ret |-> 0,
                split |-> [n |-> 2,
                           bsplines |->
                             <<[new0.bspline EXCEPT !.ctrlp = c0.buf, !.knots = k0.buf],
                               [new1.bspline EXCEPT !.ctrlp = c1.buf, !.knots = k1.buf]>>],
                ok |-> c0.ok /\ k0.ok /\ c1.ok /\ k1.ok,
                huge |-> c0.huge \/ k0.huge \/ c1.huge \/ k1.huge]

\* net is the local De Boor net as the call leaves it (after_if frees it);
\* ok is FALSE when the call never returns: a copy was undefined, or the curve
\* has no knot buffer and the read of knots[deg] dereferences NULL
ts_bspline_split(bspline, u) ==
    LET ev == ts_bspline_evaluate(bspline, u)
    IN IF ev.ret < 0
       THEN [ret |-> ev.ret, split |-> ts_bsplinesequence_default,
             net |-> ts_deboornet_free(ev.net), ok |-> TRUE, huge |-> FALSE]
       ELSE IF bspline.knots = NULL
       THEN [ret |-> 0, split |-> ts_bsplinesequence_default,
             net |-> ev.net, ok |-> FALSE, huge |-> FALSE]
       ELSE LET ret_eval ==
                  IF \/ ts_fequals(bspline.knots[bspline.deg + 1], u)
                     \/ ts_fequals(
                          bspline.knots[(bspline.n_knots - bspline.order) + 1], u)
                  THEN 1 ELSE ev.ret
                body == IF ret_eval = 0 THEN SplitGeneral(bspline, ev.net, u)
                        ELSE IF ret_eval = 1 THEN SplitCopy(bspline, u)
                        ELSE SplitPartition(bspline, ev.net)
            IN [ret |-> body.ret, split |-> body.split,
                net |-> ts_deboornet_free(ev.net),
                ok |-> body.ok, huge |-> body.huge]

(***************************************************************************)
(* The inputs: curves with a non-decreasing knot vector over 0..MaxKnot,   *)
(* parameters on the half-integers around them.                            *)
(***************************************************************************)
Dims == {1, 2}

CtrlpTable == <<1, 5, 2, 11, 3, 17, 8>>

\* coordinate d of control point j
CtrlVal(j, d) == R(CtrlpTable[((j + 3 * d) % 7) + 1])

KnotVectors(len) ==
    {kv \in [1..len -> 0..MaxKnot] : \A i \in 1..(len - 1) : kv[i] <= kv[i + 1]}

Curve(deg, dim, n_ctrlp, kv) ==
    [deg |-> deg, order |-> deg + 1, dim |-> dim, n_ctrlp |-> n_ctrlp,
     n_knots |-> n_ctrlp + deg + 1,
     ctrlp |-> [j \in 1..(n_ctrlp * dim) |->
                  CtrlVal((j - 1) \div dim, (j - 1) % dim)],
     knots |-> [i \in 1..(n_ctrlp + deg + 1) |-> R(kv[i])]]

Curves ==
    UNION {UNION {{Curve(deg, dim, n_ctrlp, kv) :
                     kv \in KnotVectors(n_ctrlp + deg + 1), dim \in Dims} :
                  n_ctrlp \in (deg + 1)..MaxCtrlp} :
           deg \in 0..MaxDeg}

Params == {RNorm(j, 2) : j \in (0 - 1)..(2 * MaxKnot + 1)}

VARIABLES
    bspline,    \* the input curve
    pc,         \* which call has returned
    u,          \* the parameter of the call
    n,          \* the insertion count of ts_bspline_insert_knot
    ret,        \* the tsError returned
    net,        \* the De Boor net: the output of ts_bspline_evaluate, or the
                \* local net of insert_knot and split as the call leaves it
    result,     \* the output curve of ts_bspline_insert_knot
    split,      \* the output sequence of ts_bspline_split
    v,          \* the parameter at which input and result are compared
    cmp,        \* the two evaluations at v
    sequence,   \* the output sequence of ts_bspline_to_bezier
    bz_i,       \* to_bezier: i, the insert index of the sequence
    ret_split,  \* to_bezier: the return of the last split
    current,    \* to_bezier: the pointer to the curve to split next
    freed,      \* to_bezier: the iterations whose split result was released
    overflow    \* to_bezier: a segment was written behind the sequence

vars == <<bspline, pc, u, n, ret, net, result, split, v, cmp,
          sequence, bz_i, ret_split, current, freed, overflow>>

bzvars == <<sequence, bz_i, ret_split, current, freed, overflow>>

\* current = (tsBSpline*) bspline
InputPtr == [base |-> "input", alloc |-> 0, idx |-> 0, len |-> 0,
             stale |-> ts_bspline_default]

NoCmp == [orig |-> [ret |-> 0, net |-> ts_deboornet_default],
          ins |-> [ret |-> 0, net |-> ts_deboornet_default]]

Init ==
    /\ bspline \in Curves
    /\ pc = "ready"
    /\ u = R(0)
    /\ n = 0
    /\ ret = TS_SUCCESS
    /\ net = ts_deboornet_default
    /\ result = ts_bspline_default
    /\ split = ts_bsplinesequence_default
    /\ v = R(0)
    /\ cmp = NoCmp
    /\ sequence = ts_bsplinesequence_default
    /\ bz_i = 0
    /\ ret_split = 0
    /\ current = InputPtr
    /\ freed = {}
    /\ overflow = FALSE

Evaluate ==
    /\ pc = "ready"
    /\ \E u0 \in Params :
         \E ev \in {ts_bspline_evaluate(bspline, u0)} :
            /\ u' = u0
            /\ ret' = ev.ret
            /\ net' = ev.net
    /\ pc' = "evaluated"
    /\ UNCHANGED <<bspline, n, result, split, v, cmp, bzvars>>

\* A call whose copies leave their buffers never returns: each such call makes
\* a copy of nearly the whole address space (InsertHuge), which ends the process.
InsertKnot ==
    /\ pc = "ready"
    /\ \E u0 \in Params, n0 \in 0..MaxTimes :
         \E ins \in {ts_bspline_insert_knot(bspline, u0, n0)} :
            /\ u' = u0
            /\ n' = n0
            /\ ret' = ins.ret
            /\ net' = ins.net
            /\ result' = ins.result
            /\ pc' = IF ins.ok THEN "inserted" ELSE "insert_crashed"
    /\ UNCHANGED <<bspline, split, v, cmp, bzvars>>

EvaluateInserted ==
    /\ pc = "inserted"
    /\ ret = TS_SUCCESS
    /\ \E v0 \in Params :
         /\ v' = v0
         /\ cmp' = [orig |-> ts_bspline_evaluate(bspline, v0),
                    ins |-> ts_bspline_evaluate(result, v0)]
    /\ pc' = "compared"
    /\ UNCHANGED <<bspline, u, n, ret, net, result, split, bzvars>>

Split ==
    /\ pc = "ready"
    /\ \E u0 \in Params :
         \E sp \in {ts_bspline_split(bspline, u0)} :
            /\ u' = u0
            /\ ret' = sp.ret
            /\ net' = sp.net
            /\ split' = sp.split
            /\ pc' = IF sp.ok THEN "split" ELSE "split_crashed"
    /\ UNCHANGED <<bspline, n, result, v, cmp, bzvars>>

(***************************************************************************)
(* ts_bspline_to_bezier, one action per loop iteration.                    *)
(***************************************************************************)
BezierBegin ==
    /\ pc = "ready"
    /\ LET n_bsplines == bspline.n_knots - 2 * bspline.order
           ret_new == ts_bsplinesequence_new(n_bsplines)
       IN sequence' = ret_new.sequence
    /\ ret_split' = 0
    /\ current' = InputPtr
    /\ bz_i' = 0
    /\ pc' = "bz_loop"
    /\ UNCHANGED <<bspline, u, n, ret, net, result, split, v, cmp, freed, overflow>>

\* What the read of *current yields.  A pointer into a released split result,
\* or behind its last element, is dangling and the read is undefined: the
\* process may crash, the memory may hold what ts_bspline_free left there (the
\* defaults), or, within the released array, the curve that was stored there.
ReadCurrent ==
    IF current.base = "input"
    THEN {[crash |-> FALSE, curve |-> bspline]}
    ELSE {[crash |-> TRUE, curve |-> ts_bspline_default],
          [crash |-> FALSE, curve |-> ts_bspline_default]}
         \cup (IF current.idx < current.len
                THEN {[crash |-> FALSE, curve |-> current.stale]}
                ELSE {})

BezierCrashed ==
    [pc |-> "bz_crashed", ret |-> ret, sequence |-> sequence, i |-> bz_i,
     ret_split |-> ret_split, current |-> current, freed |-> freed,
     overflow |-> overflow]

\* the states the rest of one iteration can lead to, sp being what
\* ts_bspline_split(current, u, &split) returned
BezierAfterSplit(sp) ==
    IF ~sp.ok THEN {BezierCrashed}
    ELSE IF sp.ret < 0
    THEN {[BezierCrashed EXCEPT
             !.pc = "bz_done", !.ret = sp.ret, !.ret_split = sp.ret,
             !.sequence = ts_bsplinesequence_default]}
    ELSE IF sp.ret < 2
    THEN LET next == [BezierCrashed EXCEPT
                        !.pc = "bz_loop", !.ret_split = sp.ret, !.i = bz_i + 1,
                        !.current = [base |-> "split", alloc |-> bz_i, idx |-> 1,
                                     len |-> sp.split.n,
                                     stale |-> IF sp.split.n > 1
                                               THEN sp.split.bsplines[2]
                                               ELSE ts_bspline_default],
                        !.freed = freed \cup {bz_i}]
         IN IF bz_i < sequence.n
            THEN {[next EXCEPT !.sequence.bsplines[bz_i + 1] =
                                 ts_bspline_copy(sp.split.bsplines[1]).copy]}
            \* &sequence->bsplines[i] is behind the array: a write through
            \* NULL crashes, a write behind the allocation may do anything
            ELSE IF sequence.bsplines = NULL THEN {BezierCrashed}
            ELSE {BezierCrashed, [next EXCEPT !.overflow = TRUE]}
    ELSE {[BezierCrashed EXCEPT
             !.pc = "bz_done", !.ret = TS_SUCCESS, !.ret_split = sp.ret,
             !.i = bz_i + 1, !.freed = freed \cup {bz_i}]}

\* the states one iteration of the loop can lead to, rd being what the read of
\* *current yielded
BezierBody(rd) ==
    IF rd.crash THEN {BezierCrashed}
    ELSE BezierAfterSplit(ts_bspline_split(rd.curve, bspline.knots[bspline.order + 1]))

BezierIter ==
    /\ pc = "bz_loop"
    /\ ret_split < 2
    /\ bz_i < MaxIter
    /\ \E rd \in ReadCurrent :
         \E nx \in BezierBody(rd) :
            /\ pc' = nx.pc
            /\ ret' = nx.ret
            /\ sequence' = nx.sequence
            /\ bz_i' = nx.i
            /\ ret_split' = nx.ret_split
            /\ current' = nx.current
            /\ freed' = nx.freed
            /\ overflow' = nx.overflow
    /\ UNCHANGED <<bspline, u, n, net, result, split, v, cmp>>

Next ==
    \/ Evaluate \/ InsertKnot \/ EvaluateInserted \/ Split
    \/ BezierBegin \/ BezierIter

Spec == Init /\ [][Next]_vars

(***************************************************************************)
(* What the claims speak of, stated without the code's scan.               *)
(***************************************************************************)
\* the curve invariants: degree < numControlPoints, numKnots =
\* numControlPoints + order, knots non-decreasing
NonDecreasing(knots) ==
    \A i \in 1..(Len(knots) - 1) : RLe(knots[i], knots[i + 1])

ValidCurve(b) ==
    /\ b.deg >= 0 /\ b.dim >= 1 /\ b.order = b.deg + 1
    /\ b.deg < b.n_ctrlp
    /\ b.n_knots = b.n_ctrlp + b.order
    /\ Len(b.knots) = b.n_knots
    /\ Len(b.ctrlp) = b.n_ctrlp * b.dim
    /\ \A j \in 1..Len(b.ctrlp) : b.ctrlp[j][2] > 0
    /\ NonDecreasing(b.knots)

\* the index (from 0) of the last knot not greater than x, -1 if there is none
LastKnotNotGreater(b, x) ==
    LET le == {i \in 0..(b.n_knots - 1) :
                 RLe(b.knots[i + 1], x) \/ ts_fequals(x, b.knots[i + 1])}
    IN IF le = {} THEN 0 - 1 ELSE CHOOSE i \in le : \A j \in le : j <= i

\* the number of knots equal to x
Multiplicity(b, x) ==
    Cardinality({i \in 1..b.n_knots : ts_fequals(x, b.knots[i])})

\* control point j (from 0)
ControlPoint(b, j) == [d \in 1..b.dim |-> b.ctrlp[j * b.dim + d]]

\* the window [k - degree, k - s] lies inside [0, numControlPoints)
WindowInside(b, x) ==
    LET k == LastKnotNotGreater(b, x)
        s == Multiplicity(b, x)
    IN k - b.deg >= 0 /\ k - s < b.n_ctrlp /\ k - b.deg <= k - s

\* the evaluated curve point of a De Boor net
CurvePoint(nt) == [d \in 1..nt.dim |-> nt.points[nt.last_idx + d]]

\* C1: evaluate has exactly one outcome, decided by k and s: MultiplicityExceeded
\* iff s > order; code 1 or 2 iff s == order; ParameterUndefined iff s < order
\* and the window [k-degree, k-s] is not inside [0, numControlPoints); otherwise
\* code 0 with numAffectedControlPoints = degree - s + 1 and numPoints = N(N+1)/2.
C1_EvaluateOutcome ==
    pc = "evaluated" =>
        LET s == Multiplicity(bspline, u)
            N == bspline.deg - s + 1
        IN /\ (ret = TS_MULTIPLICITY) <=> (s > bspline.order)
           /\ (ret \in {1, 2}) <=> (s = bspline.order)
           /\ (ret = TS_U_UNDEFINED) <=>
                  (s < bspline.order /\ ~WindowInside(bspline, u))
           /\ (ret = 0) <=> (s < bspline.order /\ WindowInside(bspline, u))
           /\ ret \in {TS_MULTIPLICITY, TS_U_UNDEFINED, 0, 1, 2}
           /\ ret = 0 =>
                  /\ net.k = LastKnotNotGreater(bspline, u)
                  /\ net.s = s
                  /\ net.n_affected = N
                  /\ 2 * net.n_points = N * (N + 1)
                  /\ Len(net.points) = net.n_points * bspline.dim
           /\ ret < 0 => net.points = NULL

C1_Witness ==
    /\ pc = "evaluated" /\ ret = 0
    /\ net.s = 1 /\ net.n_affected = 2 /\ net.n_points = 3

\* C2: at a knot of multiplicity order the result is unmodified control points:
\* the one of k-s and k-s+1 that lies in [0, numControlPoints) (code 1,
\* numPoints = 1), or both in that order (code 2, numPoints = 2).
C2_BoundaryPoints ==
    (pc = "evaluated" /\ Multiplicity(bspline, u) = bspline.order) =>
        LET fst == LastKnotNotGreater(bspline, u) - Multiplicity(bspline, u)
            snd == fst + 1
            in(j) == j >= 0 /\ j < bspline.n_ctrlp
        IN /\ (in(fst) /\ ~in(snd)) =>
                  /\ ret = 1 /\ net.n_points = 1 /\ net.n_affected = 1
                  /\ net.points = ControlPoint(bspline, fst)
           /\ (~in(fst) /\ in(snd)) =>
                  /\ ret = 1 /\ net.n_points = 1 /\ net.n_affected = 1
                  /\ net.points = ControlPoint(bspline, snd)
           /\ (in(fst) /\ in(snd)) =>
                  /\ ret = 2 /\ net.n_points = 2
                  /\ net.points = ControlPoint(bspline, fst)
                                     \o ControlPoint(bspline, snd)
           /\ in(fst) \/ in(snd)

C2_Witness ==
    /\ pc = "evaluated" /\ ret = 2 /\ net.s = bspline.order
    /\ bspline.dim = 2

\* C3: whenever insertKnot succeeds the result has the same degree and
\* dimension, numControlPoints + times control points, numKnots + times knots,
\* and its knots are the original's with u inserted times times after index k,
\* so they are still non-decreasing.
C3_InsertShape ==
    (pc = "inserted" /\ ret = TS_SUCCESS) =>
        LET k == LastKnotNotGreater(bspline, u)
        IN /\ result.deg = bspline.deg
           /\ result.order = bspline.order
           /\ result.dim = bspline.dim
           /\ result.n_ctrlp = bspline.n_ctrlp + n
           /\ Len(result.ctrlp) = (bspline.n_ctrlp + n) * bspline.dim
           /\ result.n_knots = bspline.n_knots + n
           /\ result.knots = SubSeq(bspline.knots, 1, k + 1)
                                \o [i \in 1..n |-> u]
                                \o SubSeq(bspline.knots, k + 2, bspline.n_knots)
           /\ NonDecreasing(result.knots)

C3_Witness ==
    /\ pc = "inserted" /\ ret = TS_SUCCESS /\ n = 2
    /\ Multiplicity(bspline, u) = 1

\* C4: knot insertion preserves shape: at every v where the original curve
\* evaluates, the curve with u inserted (once or more often) evaluates as well,
\* and to the same curve point.
C4_InsertPreservesShape ==
    (pc = "compared" /\ n >= 1 /\ cmp.orig.ret >= 0) =>
        /\ cmp.ins.ret >= 0
        /\ CurvePoint(cmp.ins.net) = CurvePoint(cmp.orig.net)

C4_Witness ==
    /\ pc = "compared" /\ n = 1 /\ cmp.orig.ret = 0 /\ cmp.ins.ret = 0
    /\ net.n_affected = 3 /\ cmp.orig.net.n_affected = 3
    /\ v # u /\ cmp.orig.net.k = net.k

\* evaluation at x fails
EvaluationFails(b, x) ==
    \/ Multiplicity(b, x) > b.order
    \/ Multiplicity(b, x) < b.order /\ ~WindowInside(b, x)

\* C5: insertKnot fails with MultiplicityExceeded whenever evaluation at u does
\* not fail and multiplicity(u) + times > order, it returns an evaluation
\* failure unchanged, and in every failing case the output curve is empty.
C5_InsertFailures ==
    pc \in {"inserted", "insert_crashed"} =>
        LET s == Multiplicity(bspline, u)
        IN /\ s > bspline.order => pc = "inserted" /\ ret = TS_MULTIPLICITY
           /\ (s < bspline.order /\ ~WindowInside(bspline, u)) =>
                  pc = "inserted" /\ ret = TS_U_UNDEFINED
           /\ (~EvaluationFails(bspline, u) /\ s + n > bspline.order) =>
                  pc = "inserted" /\ ret = TS_MULTIPLICITY
           /\ (pc = "inserted" /\ ret < 0) =>
                  /\ result.ctrlp = NULL /\ result.knots = NULL
                  /\ result = ts_bspline_default

C5_Witness ==
    /\ pc = "inserted" /\ ret = TS_MULTIPLICITY
    /\ ~EvaluationFails(bspline, u)
    /\ Multiplicity(bspline, u) = 1 /\ n = bspline.order
    /\ result = ts_bspline_default

\* u is the lower boundary knot knots[degree] / the upper boundary knot
\* knots[numKnots - order]
AtLow(b, x) == ts_fequals(b.knots[b.deg + 1], x)
AtHigh(b, x) == ts_fequals(b.knots[(b.n_knots - b.order) + 1], x)

SameCurve(a, b) ==
    /\ a.deg = b.deg /\ a.order = b.order /\ a.dim = b.dim
    /\ a.n_ctrlp = b.n_ctrlp /\ a.n_knots = b.n_knots
    /\ a.ctrlp = b.ctrlp /\ a.knots = b.knots

\* C6 as claimed: for every valid curve, splitting at knots[degree] or at
\* knots[numKnots-order] returns exactly one curve, equal to the original, and
\* the signal of a boundary that matched (1: knots[degree], 2: the other).
C6_Claim ==
    (pc \in {"split", "split_crashed"} /\ ValidCurve(bspline)
       /\ (AtLow(bspline, u) \/ AtHigh(bspline, u))) =>
        /\ pc = "split"
        /\ split.n = 1 /\ Len(split.bsplines) = 1
        /\ SameCurve(split.bsplines[1], bspline)
        /\ ret \in {1, 2}
        /\ ret = 1 => AtLow(bspline, u)
        /\ ret = 2 => AtHigh(bspline, u)

\* C6 amended: the same where the multiplicity of u does not exceed order, with
\* signal 1 if u is knots[degree] and 2 otherwise; where the multiplicity
\* exceeds order the split fails with MultiplicityExceeded and returns no curve.
C6_NoOpSplit ==
    (pc \in {"split", "split_crashed"} /\ ValidCurve(bspline)
       /\ (AtLow(bspline, u) \/ AtHigh(bspline, u))) =>
        /\ pc = "split"
        /\ Multiplicity(bspline, u) <= bspline.order =>
              /\ split.n = 1 /\ Len(split.bsplines) = 1
              /\ SameCurve(split.bsplines[1], bspline)
              /\ ret = IF AtLow(bspline, u) THEN 1 ELSE 2
        /\ Multiplicity(bspline, u) > bspline.order =>
              /\ ret = TS_MULTIPLICITY
              /\ split = ts_bsplinesequence_default

C6_Witness ==
    /\ pc = "split" /\ ret = 2 /\ split.n = 1
    /\ AtHigh(bspline, u) /\ ~AtLow(bspline, u)
    /\ Multiplicity(bspline, u) < bspline.order
    /\ SameCurve(split.bsplines[1], bspline)

\* u lies strictly between the two boundary knots
StrictlyInside(b, x) ==
    /\ ~AtLow(b, x) /\ ~AtHigh(b, x)
    /\ RLt(b.knots[b.deg + 1], x)
    /\ RLt(x, b.knots[(b.n_knots - b.order) + 1])

\* C7: when split returns two curves for a u strictly between the boundary
\* knots, each has the original degree, degree < numControlPoints, numKnots =
\* numControlPoints + order and non-decreasing knots, the last order knots of
\* the left curve are u and the first order knots of the right curve are u.
C7_SplitPieces ==
    (pc = "split" /\ ret = 0 /\ StrictlyInside(bspline, u)) =>
        /\ split.n = 2 /\ Len(split.bsplines) = 2
        /\ \A p \in 1..2 :
              LET c == split.bsplines[p]
              IN /\ c.deg = bspline.deg /\ c.order = bspline.order
                 /\ c.dim = bspline.dim
                 /\ c.deg < c.n_ctrlp
                 /\ c.n_knots = c.n_ctrlp + c.order
                 /\ Len(c.knots) = c.n_knots
                 /\ Len(c.ctrlp) = c.n_ctrlp * c.dim
                 /\ NonDecreasing(c.knots)
        /\ LET left == split.bsplines[1]
               right == split.bsplines[2]
           IN /\ \A i \in 1..bspline.order :
                    /\ ts_fequals(left.knots[left.n_knots - bspline.order + i], u)
                    /\ ts_fequals(right.knots[i], u)
              /\ Multiplicity(left, u) = bspline.order
              /\ Multiplicity(right, u) = bspline.order

C7_Witness ==
    /\ pc = "split" /\ ret = 0 /\ split.n = 2
    /\ StrictlyInside(bspline, u)
    /\ Multiplicity(bspline, u) = 1 /\ bspline.deg = 2

\* the full-multiplicity (index partition) case of C7 happens as well
C7_PartitionReached ==
    /\ pc = "split" /\ ret = 0 /\ split.n = 2
    /\ StrictlyInside(bspline, u)
    /\ Multiplicity(bspline, u) = bspline.order

\* a valid clamped curve: multiplicity order at both ends, no multiplicity
\* above order, and a domain that is not a single point
ClampedCurve(b) ==
    /\ ValidCurve(b)
    /\ \A j \in 1..b.order : b.knots[j] = b.knots[1]
    /\ \A j \in (b.n_knots - b.order + 1)..b.n_knots : b.knots[j] = b.knots[b.n_knots]
    /\ RLt(b.knots[1], b.knots[b.n_knots])
    /\ \A j \in 1..b.n_knots : Multiplicity(b, b.knots[j]) <= b.order

\* a Bezier segment of the given degree: numKnots == 2*order, multiplicity
\* order at both ends
BezierSegment(c, deg) ==
    /\ c.deg = deg /\ c.order = deg + 1
    /\ c.n_knots = 2 * c.order /\ Len(c.knots) = c.n_knots
    /\ c.n_ctrlp = c.order /\ Len(c.ctrlp) = c.n_ctrlp * c.dim
    /\ \A j \in 1..c.order : c.knots[j] = c.knots[1]
    /\ \A j \in (c.order + 1)..c.n_knots : c.knots[j] = c.knots[c.n_knots]

\* C8: toBezierSegments on a curve with numKnots - 2*order = m returns exactly
\* m+1 segments, each of the input's degree and with numKnots == 2*order.
C8_Claim ==
    (pc = "bz_done" /\ ClampedCurve(bspline) /\ ret = TS_SUCCESS) =>
        /\ sequence.n = (bspline.n_knots - 2 * bspline.order) + 1
        /\ Len(sequence.bsplines) = sequence.n
        /\ \A j \in 1..sequence.n :
              BezierSegment(sequence.bsplines[j], bspline.deg)

\* C9: toBezierSegments terminates for every valid clamped curve: the loop ends
\* because a split reports that nothing more can be split, and no segment is
\* written behind the output sequence that was allocated.
C9_Claim ==
    ClampedCurve(bspline) =>
        /\ pc # "bz_crashed"
        /\ ~overflow
        /\ pc = "bz_loop" => bz_i <= sequence.n
        /\ (pc = "bz_done" /\ ret = TS_SUCCESS) => ret_split = 2

\* C10: on every return path of insertKnot and of split the point buffer of
\* the De Boor net of the internal evaluation has been released.
C10_Claim ==
    pc \in {"inserted", "split"} => net.points = NULL

\* the part of C10 that the code keeps: split releases the net on every path
C10_SplitReleases ==
    pc = "split" => net.points = NULL

\* every undefined copy of insert_knot and of split comes with a copy of
\* nearly the whole address space, so such a call does not return
UndefinedCopyIsHuge ==
    \A x \in Params :
        /\ \A t \in 0..MaxTimes :
              LET ins == ts_bspline_insert_knot(bspline, x, t)
              IN ~ins.ok => ins.huge
        /\ LET sp == ts_bspline_split(bspline, x) IN sp.ok

\* the checks of insertKnot pass: the evaluation at x does not fail (codes 0, 1
\* and 2) and multiplicity(x) + t <= order
InsertChecksPass(b, x, t) ==
    /\ ~EvaluationFails(b, x)
    /\ Multiplicity(b, x) + t <= b.order

\* C11: in insertKnot, for every valid curve, every u and every times >= 0 for
\* which the checks pass, every copy stays within bounds: reads inside the
\* original control points, the original knots or the De Boor table, copy
\* lengths non-negative, writes inside the result's control points and knots.
C11_Claim ==
    (pc \in {"inserted", "insert_crashed"} /\ ValidCurve(bspline)
       /\ InsertChecksPass(bspline, u, n)) =>
        pc = "inserted"

\* the pointer p is the input curve or an existing element of a split result
\* that has not been released
Live(p) ==
    \/ p.base = "input"
    \/ p.alloc \notin freed /\ p.idx < p.len

\* C12: in toBezierSegments the curve handed to split on every iteration is
\* live: the input curve, or an existing element of a split result that has
\* not been released yet.
C12_Claim ==
    (pc = "bz_loop" /\ ret_split < 2) => Live(current)

====
